---- MODULE Spec2Model ----
(***************************************************************************)
(* Model of the discrete-event simulation engine of the synthetic payments *)
(* generator (generator/00-generator.ipynb): the generator function        *)
(* simulate(), the binary heap it keeps (heapq.heapify, heapq.heappushpop, *)
(* Python tuple comparison of the (time, result, generator) entries) and   *)
(* the event streams it pulls.                                             *)
(***************************************************************************)
EXTENDS Integers, Sequences, FiniteSets, TLC

VARIABLES
    event_generators, \* number of streams handed to simulate(); the streams are 1..event_generators
    initial_time,     \* simulate()'s initial_time argument
    gen,              \* gen[e]: internal state of stream e's generator frame
    state,            \* simulate()'s generator: "created", "suspended", "finished"
    err,              \* exception that finished simulate(): "none", "StreamError", "TypeError"
    pq,               \* the heap list of (time, result, event) entries
    out,              \* the entries yielded so far, each with its source stream
    hist,             \* hist[e]: the (offset, result) pairs stream e has yielded so far
    sent,             \* sent[e]: the values passed to stream e by event.send()
    calls,            \* number of next() calls the consumer has made on simulate()
    built_by,         \* how the simulation was built: by simulate() directly, or by setup() and its arguments
    amounts,          \* a transaction_amounts generator used on its own: its arguments and frame
    wrapped,          \* a call through makeprng's call_with_prng: its arguments and what func received
    driven            \* a stream or field generator pulled by a consumer directly: its frame and history

vars == <<event_generators, initial_time, gen, state, err, pq, out, hist, sent, calls, built_by,
          amounts, wrapped, driven>>

-----------------------------------------------------------------------------
(* Bounds of the model *)

MaxStreams == 2
MaxCalls == 3
MaxOffset == 1
MaxSeed == 5
MaxUsers == 2
\* Number of merchants (20000 in the notebook), scaled down.
MerchantCount == 105

InitialTimes == {0, 7}
\* Readings of time.time()
Clocks == {0, 36000, 1000000}
\* User ids of the streams handed to simulate() directly
LegitUsers == {0, 17}

-----------------------------------------------------------------------------
(* Python values yielded as results, and tuple comparison of heap entries *)

\* A result is a Python value: its type and, for ordered types, the sequence of
\* integers that orders it (one integer for an int, the fields in order for a
\* tuple). Values of one ordered type compare with <; values of different
\* types, and dicts, support == but raise TypeError on <.
PyInt(v) == [type |-> "int", val |-> <<v>>]
PyDict(v) == [type |-> "dict", val |-> <<v>>]
PyTuple(fields) == [type |-> "tuple", val |-> fields]

\* Results of unscripted streams: two ints and a dict.
Payloads == {PyInt(0), PyInt(1), PyDict(0)}

Entry(t, r, e) == [time |-> t, result |-> r, event |-> e]

\* Two results support < when they have the same ordered Python type.
ResultComparable(r1, r2) == r1.type = r2.type /\ r1.type # "dict"

\* Lexicographic order of two sequences of integers (Python's order of tuples).
LexLt(v1, v2) ==
    \/ \E i \in 1..Len(v1) :
          /\ i <= Len(v2)
          /\ \A j \in 1..(i - 1) : v1[j] = v2[j]
          /\ v1[i] < v2[i]
    \/ /\ Len(v1) < Len(v2)
       /\ \A j \in 1..Len(v1) : v1[j] = v2[j]

\* a < b on tuples: the first differing position decides; all equal gives False.
TupleLt(a, b) ==
    IF a.time # b.time THEN a.time < b.time
    ELSE IF a.result # b.result THEN LexLt(a.result.val, b.result.val)
    ELSE FALSE

\* a < b raises TypeError: times equal and either the results differ and are
\* not mutually comparable, or the results are equal and the comparison falls
\* through to two different generator objects.
TupleLtRaises(a, b) ==
    /\ a.time = b.time
    /\ IF a.result # b.result THEN ~ResultComparable(a.result, b.result)
       ELSE a.event # b.event

-----------------------------------------------------------------------------
(* heapq, on a 0-based list stored as a 1-based sequence *)

HeapOk(h) == [heap |-> h, err |-> FALSE]
HeapErr(h) == [heap |-> h, err |-> TRUE]

RECURSIVE SiftDownLoop(_, _, _, _)
SiftDownLoop(heap, startpos, pos, newitem) ==
    IF pos > startpos
    THEN LET parentpos == (pos - 1) \div 2
             parent == heap[parentpos + 1]
         IN IF TupleLtRaises(newitem, parent) THEN HeapErr(heap)
            ELSE IF TupleLt(newitem, parent)
                 THEN SiftDownLoop([heap EXCEPT ![pos + 1] = parent], startpos, parentpos, newitem)
                 ELSE HeapOk([heap EXCEPT ![pos + 1] = newitem])
    ELSE HeapOk([heap EXCEPT ![pos + 1] = newitem])

\* heapq._siftdown(heap, startpos, pos)
siftdown(heap, startpos, pos) == SiftDownLoop(heap, startpos, pos, heap[pos + 1])

RECURSIVE SiftUpLoop(_, _, _, _)
SiftUpLoop(heap, startpos, pos, newitem) ==
    LET endpos == Len(heap)
        childpos == 2 * pos + 1
        rightpos == childpos + 1
    IN IF childpos < endpos
       THEN IF rightpos < endpos /\ TupleLtRaises(heap[childpos + 1], heap[rightpos + 1])
            THEN HeapErr(heap)
            ELSE LET c == IF rightpos < endpos /\ ~TupleLt(heap[childpos + 1], heap[rightpos + 1])
                          THEN rightpos ELSE childpos
                 IN SiftUpLoop([heap EXCEPT ![pos + 1] = heap[c + 1]], startpos, c, newitem)
       ELSE siftdown([heap EXCEPT ![pos + 1] = newitem], startpos, pos)

\* heapq._siftup(heap, pos)
siftup(heap, pos) == SiftUpLoop(heap, pos, pos, heap[pos + 1])

RECURSIVE HeapifyLoop(_, _)
HeapifyLoop(x, i) ==
    IF i < 0 THEN HeapOk(x)
    ELSE LET r == siftup(x, i)
         IN IF r.err THEN r ELSE HeapifyLoop(r.heap, i - 1)

\* (variant: the list is left as built)
heapify_skipped(x) == HeapOk(x)

\* heapq.heapify(x): for i in reversed(range(n // 2)): _siftup(x, i)
heapify(x) == HeapifyLoop(x, (Len(x) \div 2) - 1)

\* heapq.heappushpop(heap, item): when heap[0] < item the head is replaced by
\* item and sifted; otherwise item is handed back and the heap is untouched.
heappushpop(heap, item) ==
    IF heap # <<>> /\ TupleLtRaises(heap[1], item) THEN HeapErr(heap)
    ELSE IF heap # <<>> /\ TupleLt(heap[1], item)
         THEN siftup([heap EXCEPT ![1] = item], 0)
         ELSE HeapOk(heap)

-----------------------------------------------------------------------------
(* Event streams: Python generators yielding (offset, result) *)

\* What one pull of a stream (next(e) or e.send(ts)) does: it yields
\* (offset, result) or raises; gen is the stream's frame afterwards.
Yield(off, res, g) == [raised |-> FALSE, offset |-> off, result |-> res, gen |-> g]
Raise(g) == [raised |-> TRUE, offset |-> 0, result |-> PyInt(0), gen |-> g]

\* A stream about which nothing is known but the set of offsets it may yield:
\* each pull yields any of these offsets with any result, or raises.
Unscripted(offs, results) == [kind |-> "unscripted", offsets |-> offs, results |-> results]

UnscriptedOutcomes(g) ==
    {Raise(g)} \cup {Yield(o, r, g) : o \in g.offsets, r \in g.results}

-----------------------------------------------------------------------------
(* Seeded pseudorandom generators *)

\* The absent argument (Python's None).
None == -1

\* A generator built from a seed: np.random.default_rng(seed=seed), or the
\* RandomState scipy builds from an integer random_state. Its draws are a
\* fixed function of the seed and of the number of draws made before.
default_rng(seed) == [seed |-> seed, pos |-> 0]

\* The i-th next raw draw of rng (i = 0 is the next one), in 0..99.
Raw(rng, i) ==
    LET k == rng.pos + i
    IN (rng.seed * 37 + k * 53 + rng.seed * k * 11 + k * k * 7 + 29) % 100

\* rng after n draws
Advance(rng, n) == [rng EXCEPT !.pos = @ + n]

\* prng.integers(m), from raw draw r
Integers(r, m) == r % m

\* Sum of the first i entries of a list of weights (in thousandths).
RECURSIVE Cumulative(_, _)
Cumulative(p, i) == IF i = 0 THEN 0 ELSE Cumulative(p, i - 1) + p[i]

\* prng.choice(len(p), p=p) from raw draw r: the (1-based) index whose
\* cumulative weight interval holds r.
Choice(r, p) ==
    CHOOSE i \in 1..Len(p) : Cumulative(p, i - 1) <= r * 10 /\ r * 10 < Cumulative(p, i)

\* prng=None: no generator instance is passed.
NoPrng == [seed |-> None, pos |-> None]

\* int(time.time()) & ((1 << 32) - 1), scaled to the seeds of the model.
time_seed(now) == now % 100

\* (variant: the seed is tested for truth, so that seed 0 counts as absent)
makeprng_falsy_seed(prng, seed, now) ==
    IF prng = NoPrng
    THEN LET sd == IF seed = None \/ seed = 0 THEN time_seed(now) ELSE seed
         IN [prng |-> default_rng(sd), seed |-> sd]
    ELSE [prng |-> prng, seed |-> seed]

\* makeprng's call_with_prng(prng=None, seed=None): the (prng, seed) the
\* wrapped function receives; now is what time.time() reads.
makeprng(prng, seed, now) ==
    IF prng = NoPrng
    THEN LET sd == IF seed = None THEN time_seed(now) ELSE seed
         IN [prng |-> default_rng(sd), seed |-> sd]
    ELSE [prng |-> prng, seed |-> seed]

-----------------------------------------------------------------------------
(* Field generators *)

SECONDS_PER_DAY == 86400
SECONDS_PER_HOUR == 3600

\* Entry types in the order of the source list, and their order as strings.
entry_types == <<"contactless", "chip_and_pin", "swipe", "manual", "online">>
EntryRank(entry) ==
    CASE entry = "chip_and_pin" -> 0
      [] entry = "contactless" -> 1
      [] entry = "manual" -> 2
      [] entry = "online" -> 3
      [] entry = "swipe" -> 4
legitimate_entry_probs == <<250, 200, 150, 50, 350>>
fraud_entry_probs == <<50, 50, 50, 350, 500>>

\* prng.choice(n, p=p) raises ValueError: p has not n entries, an entry is
\* negative, or the entries do not sum to 1 (weights are in thousandths).
choice_raises(n, p) ==
    \/ Len(p) # n
    \/ \E i \in 1..Len(p) : p[i] < 0
    \/ Cumulative(p, Len(p)) # 1000

\* mkgamma(m, rng): a sample of gamma.ppf(u, a=1.1, scale=min(m, 750), loc=m)
\* from raw draw r, m being in cents; the sample is in hundredths of a cent
\* and lies at or above loc.
mkgamma(m, r) == 100 * m + (r * (IF m < 750 THEN m ELSE 750)) \div 4

\* (variant: the sample is not floored)
floor_omitted(c) == c

\* np.floor(c) of a value in cents, kept in hundredths of a cent.
floor(c) == (c \div 100) * 100

\* transaction_amounts(means, percentages, seed): the generator's frame. Each
\* amount is the floored sample of the component chosen by weight, yielded as
\* floor(c) / 100; the model keeps it in hundredths of a cent.
transaction_amounts(means, percentages, seed) ==
    [rng |-> default_rng(seed), means |-> means, percentages |-> percentages]
AmountRaises(a) == choice_raises(Len(a.means), a.percentages)
AmountChoice(a) == Choice(Raw(a.rng, 1), a.percentages)
AmountSample(a) == mkgamma(a.means[AmountChoice(a)] * 100, Raw(a.rng, 0))
NextAmount(a) == floor(AmountSample(a))
AfterAmount(a) == [a EXCEPT !.rng = Advance(@, 2)]

\* legitimate_entry_types / fraud_entry_types: one entry type per draw.
NextEntry(rng, probs) == entry_types[Choice(Raw(rng, 0), probs)]

\* merchant_stream(common_merchants, all_merchants, fav_percentage=0.2,
\* probs=[0.6, 0.37, 0.03], seed): the favorites are drawn once, from the
\* common merchants; each id comes from the pool chosen for that draw.
merchant_probs == <<600, 370, 30>>

\* (variant: the favorites are drawn from all merchants)
merchant_stream_favorites_from_all(common_merchants, merchant_count, seed) ==
    LET rng == default_rng(seed)
        size == (Len(common_merchants) * 20) \div 100
    IN [rng |-> Advance(rng, size),
        favorite_merchants |-> [j \in 1..size |-> Integers(Raw(rng, j - 1), merchant_count)],
        common_merchants |-> common_merchants,
        merchant_count |-> merchant_count]

merchant_stream(common_merchants, merchant_count, seed) ==
    LET rng == default_rng(seed)
        size == (Len(common_merchants) * 20) \div 100
    IN [rng |-> Advance(rng, size),
        favorite_merchants |->
            [j \in 1..size |-> common_merchants[1 + Integers(Raw(rng, j - 1), Len(common_merchants))]],
        common_merchants |-> common_merchants,
        merchant_count |-> merchant_count]
\* pool = merchants[prng.choice(len(merchants), p=probs)]: the index of the pool
MerchantPool(m) == Choice(Raw(m.rng, 0), merchant_probs)
\* prng.choice(pool) raises ValueError on an empty pool
MerchantRaises(m) ==
    \/ MerchantPool(m) = 1 /\ m.favorite_merchants = <<>>
    \/ MerchantPool(m) = 2 /\ m.common_merchants = <<>>
NextMerchant(m) ==
    LET pool == MerchantPool(m)
        r == Raw(m.rng, 1)
    IN CASE pool = 1 -> m.favorite_merchants[1 + Integers(r, Len(m.favorite_merchants))]
         [] pool = 2 -> m.common_merchants[1 + Integers(r, Len(m.common_merchants))]
         [] pool = 3 -> Integers(r, m.merchant_count)
AfterMerchant(m) == [m EXCEPT !.rng = Advance(@, 2)]

\* prng.choice(merchant_count, size=size): a list of merchant ids
ChooseMerchants(rng, merchant_count, size) ==
    [j \in 1..size |-> Integers(Raw(rng, j - 1) * 7 + j, merchant_count)]

\* stats.geom(p, loc).rvs() from raw draw r: loc + k with k >= 1, mean being 1 / p
Geom(r, mean, loc) == loc + 1 + (r * mean) \div 50

-----------------------------------------------------------------------------
(* User behaviour streams *)

\* common_merchants=None
NoMerchants == <<>>

WAKEUP_TIME == 7 * SECONDS_PER_HOUR
SLEEP_TIME == 21 * SECONDS_PER_HOUR

\* tz_offset = (user_id % 24) * SECONDS_PER_HOUR
tz_offset(user_id) == (user_id % 24) * SECONDS_PER_HOUR

\* @makeprng legitimate_user_stream(user_id, transactions_per_day, start_timestamp=0,
\*     amount_means, amount_probs=[0.9, 0.075, 0.025], seed, common_merchants,
\*     merchant_count): the generator's frame when its loop is first entered.
legitimate_user_stream(user_id, transactions_per_day, amount_means, seed, common_merchants, merchant_count, now) ==
    LET prng == makeprng(NoPrng, seed, now).prng
        own == IF common_merchants = NoMerchants THEN merchant_count \div 21 ELSE 0
        common == IF common_merchants = NoMerchants
                  THEN ChooseMerchants(prng, merchant_count, own)
                  ELSE common_merchants
        loc == SECONDS_PER_DAY \div transactions_per_day
    IN [kind |-> "legitimate",
        user_id |-> user_id,
        amounts |-> transaction_amounts(amount_means, <<900, 75, 25>>, Raw(prng, own)),
        entry_types |-> default_rng(Raw(prng, own + 1)),
        merchants |-> merchant_stream(common, merchant_count, Raw(prng, own + 2)),
        loc |-> loc,
        geom |-> default_rng(Raw(prng, own + 3)),
        prng |-> Advance(prng, own + 4),
        ts |-> 0,
        started |-> FALSE]

\* (variant: the two bounds of the window are exchanged)
AwakeBoundsSwapped(localtime) == localtime > SLEEP_TIME /\ localtime < WAKEUP_TIME

\* The test that ends the snooze loop: localtime > WAKEUP_TIME and localtime < SLEEP_TIME
Awake(localtime) == localtime > WAKEUP_TIME /\ localtime < SLEEP_TIME

\* The test that starts it: localtime < WAKEUP_TIME or localtime > SLEEP_TIME
Asleep(localtime) == localtime < WAKEUP_TIME \/ localtime > SLEEP_TIME

\* (variant: the offset is set to the time left until the wake-up hour of the same day)
SnoozeToWakeup(g, ts, offset, i, snooze) ==
    IF ~snooze THEN [offset |-> offset, draws |-> i]
    ELSE [offset |-> WAKEUP_TIME - ((ts + tz_offset(g.user_id)) % SECONDS_PER_DAY), draws |-> i]

\* The snooze loop "while snooze:", entered with the offset so far, i draws
\* already taken from geom, and the snooze flag: the offset it ends with and
\* the number of draws taken.
RECURSIVE SnoozeLoop(_, _, _, _, _)
SnoozeLoop(g, ts, offset, i, snooze) ==
    IF ~snooze THEN [offset |-> offset, draws |-> i]
    ELSE LET localtime == (ts + tz_offset(g.user_id) + offset) % SECONDS_PER_DAY
             still == ~Awake(localtime)
         IN SnoozeLoop(g, ts, offset + Geom(Raw(g.geom, i), g.loc \div 10, g.loc), i + 1, still)

\* (variant: the flag is drawn whatever the entry type is)
ForeignUnconditioned(entry, r) == r < 40

\* foreign = entry == "online" and prng.choice([True, False], p=[0.4, 0.6]),
\* r being the raw draw behind the choice.
Foreign(entry, r) == entry = "online" /\ r < 40

\* One pass of the stream's "while True" body up to its yield; value is what
\* the yield expression receives on resumption (ts).
LegitimatePull(g, value) ==
    LET ts == IF g.started THEN value ELSE g.ts
        amount == NextAmount(g.amounts)
        entry == NextEntry(g.entry_types, legitimate_entry_probs)
        foreign == Foreign(entry, Raw(g.prng, 0))
        merchant_id == NextMerchant(g.merchants)
        first == Geom(Raw(g.geom, 0), g.loc \div 10, g.loc)
        localtime == (ts + tz_offset(g.user_id)) % SECONDS_PER_DAY
        snooze == Asleep(localtime)
        loop == SnoozeLoop(g, ts, first, 1, snooze)
        result == PyTuple(<<1, g.user_id, amount, merchant_id, EntryRank(entry),
                            IF foreign THEN 1 ELSE 0>>)
    IN Yield(loop.offset, result,
             [g EXCEPT !.amounts = AfterAmount(@),
                       !.entry_types = Advance(@, 1),
                       !.prng = IF entry = "online" THEN Advance(@, 1) ELSE @,
                       !.merchants = AfterMerchant(@),
                       !.geom = Advance(@, loop.draws),
                       !.ts = ts,
                       !.started = TRUE])

\* Largest burst the scaled Poisson draw gives.
MaxBurst == 2

\* @makeprng fraudulent_user_stream(user_id, transactions_per_day=12,
\*     transactions_per_burst=10, amount_means=[5, 10, 20],
\*     amount_probs=[0.2, 0.2, 0.6], seed, merchant_count)
fraudulent_user_stream(user_id, seed, merchant_count, now) ==
    LET prng == makeprng(NoPrng, seed, now).prng
    IN [kind |-> "fraud",
        user_id |-> user_id,
        amounts |-> transaction_amounts(<<5, 10, 20>>, <<200, 200, 600>>, Raw(prng, 0)),
        entry_types |-> default_rng(Raw(prng, 1)),
        loc |-> SECONDS_PER_DAY \div (12 * 10),
        poisson |-> default_rng(Raw(prng, 2)),
        foldnorm |-> default_rng(Raw(prng, 3)),
        geom |-> default_rng(Raw(prng, 4)),
        prng |-> Advance(prng, 5),
        merchant_count |-> merchant_count,
        fraud_delay |-> 0,
        fraud_count |-> 0,
        burst |-> <<>>]

\* (variant: offsets += fraud_delay, the delay added to every offset)
BurstOffsetEvery(j, gap, fraud_delay) == gap + fraud_delay

\* offsets = geom.rvs(size=fraud_count); offsets[0] += fraud_delay: the j-th
\* offset of the burst, gap being the j-th geometric draw.
BurstOffset(j, gap, fraud_delay) == IF j = 1 THEN gap + fraud_delay ELSE gap

\* One episode of the outer "while True": the delay, the burst size and the
\* (offset, result) pairs of the burst, the delay added to the first offset.
FraudEpisode(g) ==
    LET fraud_delay ==
            LET d == SECONDS_PER_DAY * 30 + Raw(g.foldnorm, 0) * 20000
            IN IF d > 1 THEN d ELSE 1
        fraud_count ==
            LET c == Raw(g.poisson, 0) % (MaxBurst + 1)
            IN IF c > 1 THEN c ELSE 1
        am(j) == NextAmount([g.amounts EXCEPT !.rng = Advance(@, 2 * (j - 1))])
        en(j) == NextEntry(Advance(g.entry_types, j - 1), fraud_entry_probs)
        f(j) == IF Raw(g.prng, j - 1) < 30 THEN 1 ELSE 0
        m_id(j) == Integers(Raw(g.prng, fraud_count + j - 1), g.merchant_count)
        off(j) == BurstOffset(j, Geom(Raw(g.geom, j - 1), 10, g.loc), fraud_delay)
    IN [g EXCEPT !.amounts.rng = Advance(@, 2 * fraud_count),
                 !.entry_types = Advance(@, fraud_count),
                 !.prng = Advance(@, 2 * fraud_count),
                 !.geom = Advance(@, fraud_count),
                 !.poisson = Advance(@, 1),
                 !.foldnorm = Advance(@, 1),
                 !.fraud_delay = fraud_delay,
                 !.fraud_count = fraud_count,
                 !.burst = [j \in 1..fraud_count |->
                               [offset |-> off(j),
                                result |-> PyTuple(<<0, g.user_id, am(j), m_id(j),
                                                     EntryRank(en(j)), f(j)>>)]]]

\* (variant: the stream waits an hour more when the time sent falls in the user's night)
FraudulentPullSnoozing(g, value) ==
    LET h == IF g.burst = <<>> THEN FraudEpisode(g) ELSE g
        wait == IF Asleep((value + tz_offset(g.user_id)) % SECONDS_PER_DAY)
                THEN SECONDS_PER_HOUR ELSE 0
    IN Yield(Head(h.burst).offset + wait, Head(h.burst).result, [h EXCEPT !.burst = Tail(@)])

\* The stream advanced to its next yield: the next pair of the current burst,
\* a new episode being drawn first when the burst is exhausted. value is what
\* is sent to the stream: its yield is a statement, and the value is dropped.
FraudulentPull(g, value) ==
    LET h == IF g.burst = <<>> THEN FraudEpisode(g) ELSE g
    IN Yield(Head(h.burst).offset, Head(h.burst).result, [h EXCEPT !.burst = Tail(@)])

\* The outcomes of pulling the stream with frame g, ts being the value sent.
Outcomes(g, ts) ==
    CASE g.kind = "unscripted" -> UnscriptedOutcomes(g)
      [] g.kind = "legitimate" -> {LegitimatePull(g, ts)}
      [] g.kind = "fraud" -> {FraudulentPull(g, ts)}

-----------------------------------------------------------------------------
(* simulate(event_generators, initial_time) *)

\* The generator object simulate() returns, before its first next().
NewSimulation(n, i, g) ==
    [n |-> n, initial_time |-> i, gen |-> g,
     state |-> "created", err |-> "none", pq |-> <<>>, out |-> <<>>,
     hist |-> [e \in 1..n |-> <<>>], sent |-> [e \in 1..n |-> <<>>], calls |-> 0]

\* (variant: the exception is swallowed and the loop resumes with the queue as it is)
PropagateSwallowed(S, exc) ==
    [S EXCEPT !.state = IF S.pq = <<>> THEN "finished" ELSE "suspended", !.err = exc]

\* An exception leaves simulate()'s frame: the generator is finished for good.
Propagate(S, exc) == [S EXCEPT !.state = "finished", !.err = exc, !.pq = <<>>]

\* (variant: the initial time is not added)
setup_e_no_initial_time(o, e, i) == Entry(o.offset, o.result, e)

\* (variant: the stream's position is added in place of the initial time)
setup_e_position(o, e, i) == Entry(o.offset + e, o.result, e)

\* setup_e(e, i), given what next(e) yielded
setup_e(o, e, i) == Entry(o.offset + i, o.result, e)

\* The list comprehension building pq, from stream e on: each stream is
\* advanced once, in order; a stream that raises ends the comprehension.
RECURSIVE SetupFrom(_, _)
SetupFrom(S, e) ==
    IF e > S.n THEN {S}
    ELSE UNION {
        IF o.raised
        THEN {Propagate([S EXCEPT !.gen[e] = o.gen], "StreamError")}
        ELSE SetupFrom([S EXCEPT !.gen[e] = o.gen,
                                 !.hist[e] = Append(@, [offset |-> o.offset, result |-> o.result]),
                                 !.pq = Append(@, setup_e(o, e, S.initial_time))],
                       e + 1)
        : o \in Outcomes(S.gen[e], 0) }

\* The value passed to the head's stream: event.send(timestamp)
Feedback(head) == head.time

\* (variant: the head's time is not added)
NextTimeOffsetOnly(timestamp, offset) == offset

\* The time of the entry pushed back for the head's stream: timestamp + offset
NextTime(timestamp, offset) == timestamp + offset

\* (variant: the last entry of the list is taken)
PeekLast(heap) == heap[Len(heap)]

\* The queue head: pq[0]
Peek(heap) == heap[1]

\* One pass through the body of "while True", up to the yield.
Iterate(S) ==
    LET head == Peek(S.pq)
        timestamp == head.time
        event == head.event
    IN { LET S1 == [S EXCEPT !.sent[event] = Append(@, Feedback(head)),
                             !.gen[event] = o.gen]
         IN IF o.raised THEN Propagate(S1, "StreamError")
            ELSE LET S2 == [S1 EXCEPT !.hist[event] =
                                Append(@, [offset |-> o.offset, result |-> o.result])]
                     r == heappushpop(S.pq, Entry(NextTime(timestamp, o.offset), o.result, event))
                 IN IF r.err THEN Propagate(S2, "TypeError")
                    ELSE [S2 EXCEPT !.pq = r.heap,
                                    !.out = Append(@, head),
                                    !.state = "suspended"]
         : o \in Outcomes(S.gen[event], Feedback(head)) }

\* The first next(): the body runs from the top (setup, heapify) to the first yield.
Start(S) ==
    UNION { IF T.state = "finished" THEN {T}
            ELSE LET h == heapify(T.pq)
                 IN IF h.err THEN {Propagate(T, "TypeError")}
                    ELSE Iterate([T EXCEPT !.pq = h.heap])
            : T \in SetupFrom(S, 1) }

\* next(sim): the possible states of the generator after the call.
simulate(S) ==
    LET C == [S EXCEPT !.calls = @ + 1]
    IN CASE S.state = "created" -> Start(C)
         [] S.state = "suspended" -> Iterate(C)
         [] OTHER -> {C}

\* The generator after k next() calls, for streams whose pulls have one outcome.
RECURSIVE Run(_, _)
Run(S, k) == IF k = 0 THEN S ELSE Run(CHOOSE T \in simulate(S) : TRUE, k - 1)

-----------------------------------------------------------------------------
(* setup(user_count, merchant_count, common_fraction, seed) *)

\* 0xda7aba5e, the seed used when none (or 0) is given, scaled down.
DefaultSeed == 94

\* (variant: enumerate(seeds, 1))
enumerate_from_one(i) == i

\* for uid, seed in enumerate(seeds): the uid paired with the i-th seed (i from 1)
enumerate(i) == i - 1

\* The generator setup() returns; now is what time.time() reads.
setup(user_count, merchant_count, common_fraction, seed, now) ==
    LET common_merchant_count == merchant_count \div common_fraction
        prng == default_rng(IF seed = None \/ seed = 0 THEN DefaultSeed ELSE seed)
        common_merchants == ChooseMerchants(prng, merchant_count, common_merchant_count)
        legitimate_user_seeds == [uid \in 0..(user_count - 1) |-> Raw(prng, common_merchant_count + uid)]
        fraud_user_seeds ==
            [uid \in 0..(user_count - 1) |-> Raw(prng, common_merchant_count + user_count + uid)]
        base == common_merchant_count + 2 * user_count
        legitimate_streams ==
            [i \in 1..user_count |->
                LET uid == enumerate(i)
                    b == base + 4 * (i - 1)
                IN legitimate_user_stream(
                       uid,
                       5 + Integers(Raw(prng, b), 13),
                       << 3 * (Integers(Raw(prng, b + 1), 7) + 1),
                          5 * (Integers(Raw(prng, b + 2), 20) + 4),
                          20 * (Integers(Raw(prng, b + 3), 35) + 4) >>,
                       legitimate_user_seeds[i - 1],
                       common_merchants, merchant_count, now)]
        chosen == [i \in 1..user_count |-> Integers(Raw(prng, base + 4 * user_count + i - 1), 10) < 6]
        kept == SelectSeq([i \in 1..user_count |-> i], LAMBDA i : chosen[i])
        fraud_streams ==
            [k \in 1..Len(kept) |->
                fraudulent_user_stream(enumerate(kept[k]), fraud_user_seeds[kept[k] - 1],
                                       merchant_count, now)]
        streams == legitimate_streams \o fraud_streams
    IN NewSimulation(Len(streams), now, streams)

-----------------------------------------------------------------------------
(* The state machine *)

Sim ==
    [n |-> event_generators, initial_time |-> initial_time, gen |-> gen,
     state |-> state, err |-> err, pq |-> pq, out |-> out,
     hist |-> hist, sent |-> sent, calls |-> calls]

Becomes(S) ==
    /\ event_generators' = S.n
    /\ initial_time' = S.initial_time
    /\ gen' = S.gen
    /\ state' = S.state
    /\ err' = S.err
    /\ pq' = S.pq
    /\ out' = S.out
    /\ hist' = S.hist
    /\ sent' = S.sent
    /\ calls' = S.calls
    /\ UNCHANGED <<built_by, amounts, wrapped, driven>>

Holds(S) ==
    /\ event_generators = S.n
    /\ initial_time = S.initial_time
    /\ gen = S.gen
    /\ state = S.state
    /\ err = S.err
    /\ pq = S.pq
    /\ out = S.out
    /\ hist = S.hist
    /\ sent = S.sent
    /\ calls = S.calls

Direct == [by |-> "simulate", user_count |-> 0, seed |-> None]

\* No field generator is used on its own beside the simulation.
NotUsed == [state |-> "unused"]
EngineOnly == amounts = NotUsed /\ wrapped = NotUsed /\ driven = NotUsed

\* simulate() called on streams that keep the contract: every offset >= 0.
Init ==
    /\ built_by = Direct
    /\ EngineOnly
    /\ \E n \in 1..MaxStreams, i \in InitialTimes :
          Holds(NewSimulation(n, i, [e \in 1..n |-> Unscripted(0..MaxOffset, Payloads)]))

\* simulate() called on streams that may break the contract with a negative offset.
BadOffsets == {-1, 0, 1}
InitNeg ==
    /\ built_by = Direct
    /\ EngineOnly
    /\ \E n \in 1..MaxStreams :
          Holds(NewSimulation(n, 0, [e \in 1..n |-> Unscripted(BadOffsets, {PyInt(0), PyInt(1)})]))

\* simulate([legitimate_user_stream(i, seed=seeds[i]) for i in ...]): seeded
\* legitimate streams with their own common merchants, from time 0.
InitLegit ==
    /\ built_by = Direct
    /\ EngineOnly
    /\ \E n \in 1..MaxStreams :
          \E users \in [1..n -> LegitUsers], seeds \in [1..n -> 0..MaxSeed] :
              Holds(NewSimulation(n, 0,
                  [e \in 1..n |->
                      legitimate_user_stream(users[e], 12, <<20, 100, 500>>, seeds[e],
                                             NoMerchants, MerchantCount, 0)]))

\* A user stream of either kind, built with an explicit seed and otherwise
\* default arguments.
StreamKinds == {"legitimate", "fraud"}
user_stream(kind, user_id, seed) ==
    IF kind = "legitimate"
    THEN legitimate_user_stream(user_id, 12, <<20, 100, 500>>, seed, NoMerchants, MerchantCount, 0)
    ELSE fraudulent_user_stream(user_id, seed, MerchantCount, 0)

\* simulate([...]) on seeded legitimate and fraudulent user streams, from time 0.
InitUsers ==
    /\ EngineOnly
    /\ \E n \in 1..MaxStreams :
          \E kinds \in [1..n -> StreamKinds], users \in [1..n -> LegitUsers],
             seeds \in [1..n -> 0..MaxSeed] :
              /\ built_by = [by |-> "users", kinds |-> kinds, users |-> users, seeds |-> seeds]
              /\ Holds(NewSimulation(n, 0,
                     [e \in 1..n |-> user_stream(kinds[e], users[e], seeds[e])]))

\* simulation = setup(user_count, merchant_count, seed=seed), run when the
\* clock reads now.
InitSetup ==
    \E user_count \in 1..MaxUsers, seed \in 0..MaxSeed, now \in Clocks :
        /\ built_by = [by |-> "setup", user_count |-> user_count, seed |-> seed]
        /\ EngineOnly
        /\ Holds(setup(user_count, MerchantCount, 21, seed, now))

\* The consumer's first next() on the generator.
FirstNext ==
    /\ state = "created"
    /\ calls < MaxCalls
    /\ \E S \in simulate(Sim) : Becomes(S)

\* A later next() on the suspended generator.
LoopNext ==
    /\ state = "suspended"
    /\ calls < MaxCalls
    /\ \E S \in simulate(Sim) : Becomes(S)

\* next() on the finished generator: StopIteration, nothing else happens.
ExhaustedNext ==
    /\ state = "finished"
    /\ calls < MaxCalls
    /\ \E S \in simulate(Sim) : Becomes(S)

Next == FirstNext \/ LoopNext \/ ExhaustedNext

Spec == Init /\ [][Next]_vars

SpecNeg == InitNeg /\ [][Next]_vars

SpecLegit == InitLegit /\ [][Next]_vars

SpecUsers == InitUsers /\ [][Next]_vars

\* The streams setup() builds never raise and never tie on time and payload.
NextRunning == FirstNext \/ LoopNext

SpecSetup == InitSetup /\ [][NextRunning]_vars

-----------------------------------------------------------------------------
(* transaction_amounts(means, percentages, seed) used on its own *)

AmountMeans == {<<20, 100, 500>>, <<5, 10, 20>>, <<3, 20>>}
AmountPercentages ==
    {<<900, 75, 25>>, <<200, 200, 600>>, <<900, 100, 25>>, <<900, 75>>, <<500, 500>>}

\* No simulation is built: the engine's variables stay as they are.
NoSimulation ==
    /\ built_by = [by |-> "none"]
    /\ Holds(NewSimulation(0, 0, <<>>))

\* The arguments of a call of transaction_amounts that is about to be made.
InitAmounts ==
    /\ NoSimulation
    /\ wrapped = NotUsed
    /\ driven = NotUsed
    /\ \E means \in AmountMeans, percentages \in AmountPercentages, seed \in 0..MaxSeed :
          amounts = [state |-> "uncalled", means |-> means, percentages |-> percentages,
                     seed |-> seed]

\* amounts = transaction_amounts(means, percentages, seed=seed): a generator
\* object is made; none of the function's body runs.
CallAmounts ==
    /\ amounts.state = "uncalled"
    /\ amounts' = [state |-> "created", err |-> "none",
                   frame |-> transaction_amounts(amounts.means, amounts.percentages, amounts.seed),
                   choice |-> <<>>, sample |-> <<>>, yielded |-> <<>>]
    /\ UNCHANGED <<event_generators, initial_time, gen, state, err, pq, out, hist, sent, calls,
                   built_by, wrapped, driven>>

\* next(amounts): the body runs to its next yield, or prng.choice raises.
PullAmounts ==
    /\ amounts.state \in {"created", "suspended"}
    /\ Len(amounts.yielded) < MaxCalls
    /\ amounts' =
          IF AmountRaises(amounts.frame)
          THEN [amounts EXCEPT !.state = "finished", !.err = "ValueError"]
          ELSE [amounts EXCEPT !.state = "suspended",
                               !.frame = AfterAmount(@),
                               !.choice = Append(@, AmountChoice(amounts.frame)),
                               !.sample = Append(@, AmountSample(amounts.frame)),
                               !.yielded = Append(@, NextAmount(amounts.frame))]
    /\ UNCHANGED <<event_generators, initial_time, gen, state, err, pq, out, hist, sent, calls,
                   built_by, wrapped, driven>>

NextAmounts == CallAmounts \/ PullAmounts

SpecAmounts == InitAmounts /\ [][NextAmounts]_vars

-----------------------------------------------------------------------------
(* A function wrapped by @makeprng, called with prng and seed arguments *)

\* Readings of time.time() when the wrapped function is called.
WrappedClocks == {3, 36007}

\* Generator instances a caller may pass: seeded, fresh or already drawn from.
PrngInstances == {Advance(default_rng(sd), k) : sd \in 0..MaxSeed, k \in 0..1}

\* The arguments of a call that is about to be made.
InitPrng ==
    /\ NoSimulation
    /\ amounts = NotUsed
    /\ driven = NotUsed
    /\ \E prng \in {NoPrng} \cup PrngInstances, seed \in {None} \cup 0..MaxSeed,
          now \in WrappedClocks :
          wrapped = [state |-> "uncalled", prng |-> prng, seed |-> seed, now |-> now]

\* call_with_prng(prng=prng, seed=seed): func is called with what makeprng resolves.
CallWithPrng ==
    /\ wrapped.state = "uncalled"
    /\ wrapped' = [state |-> "called", prng |-> wrapped.prng, seed |-> wrapped.seed,
                   now |-> wrapped.now,
                   received |-> makeprng(wrapped.prng, wrapped.seed, wrapped.now)]
    /\ UNCHANGED <<event_generators, initial_time, gen, state, err, pq, out, hist, sent, calls,
                   built_by, amounts, driven>>

NextPrng == CallWithPrng

SpecPrng == InitPrng /\ [][NextPrng]_vars

-----------------------------------------------------------------------------
(* legitimate_user_stream(user_id, seed=seed) pulled by a consumer, one pass of
   its snooze loop at a time *)

\* Values geom.rvs() can return for transactions_per_day = 12 (loc = 7200):
\* any integer above loc; two near the mean and one far in the tail.
GeomValues == {9000, 10800, 57600}

SnoozeUsers == {0, 5, 17, 22}

\* Only the time of day of ts and of offset enters the loop's tests: both are
\* kept modulo a day.
TimeOfDay(t) == t % SECONDS_PER_DAY

\* The stream is about to be pulled for the first time: ts = start_timestamp = 0.
InitSnooze ==
    /\ NoSimulation
    /\ amounts = NotUsed
    /\ wrapped = NotUsed
    /\ \E user_id \in SnoozeUsers :
          driven = [state |-> "start", kind |-> "legitimate", user_id |-> user_id,
                    ts |-> 0, offset |-> 0, snooze |-> FALSE]

Engine == <<event_generators, initial_time, gen, state, err, pq, out, hist, sent, calls, built_by>>

\* offset = geom.rvs(); the window is tested on ts.
DrawOffset ==
    /\ driven.state = "start"
    /\ \E d \in GeomValues :
          driven' = [driven EXCEPT
                        !.state = "loop",
                        !.offset = TimeOfDay(d),
                        !.snooze = @ \/ Asleep(TimeOfDay(driven.ts + tz_offset(driven.user_id)))]
    /\ UNCHANGED <<Engine, amounts, wrapped>>

\* One pass of "while snooze:", the draw added at its end being d.
SnoozePass(d) ==
    /\ driven.state = "loop"
    /\ driven.snooze
    /\ driven' = [driven EXCEPT
                      !.snooze = ~Awake(TimeOfDay(driven.ts + tz_offset(driven.user_id)
                                                  + driven.offset)),
                      !.offset = TimeOfDay(@ + d)]
    /\ UNCHANGED <<Engine, amounts, wrapped>>

SnoozeAgain == \E d \in GeomValues : SnoozePass(d)

\* ts = yield (offset, ...): the pull returns its event.
YieldEvent ==
    /\ driven.state = "loop"
    /\ ~driven.snooze
    /\ driven' = [driven EXCEPT !.state = "yield"]
    /\ UNCHANGED <<Engine, amounts, wrapped>>

\* The consumer sends the event's absolute time and the stream runs on.
Resume ==
    /\ driven.state = "yield"
    /\ driven' = [driven EXCEPT !.state = "start", !.ts = TimeOfDay(@ + driven.offset)]
    /\ UNCHANGED <<Engine, amounts, wrapped>>

NextSnooze == DrawOffset \/ SnoozeAgain \/ YieldEvent \/ Resume

\* A pass whose draw brings the local time into the awake window.
LandAwake ==
    \E d \in GeomValues :
        /\ SnoozePass(d)
        /\ Awake(TimeOfDay(driven'.ts + tz_offset(driven'.user_id) + driven'.offset))

\* The stream's code runs on whenever it can, and every value geom can draw
\* has a positive probability at every pass: a landing in the window that is
\* possible again and again is eventually drawn.
SpecSnooze ==
    /\ InitSnooze
    /\ [][NextSnooze]_vars
    /\ WF_vars(DrawOffset)
    /\ WF_vars(SnoozeAgain)
    /\ WF_vars(YieldEvent)
    /\ SF_vars(LandAwake)

-----------------------------------------------------------------------------
(* fraudulent_user_stream(user_id, seed=seed) pulled by a consumer that sends
   it times of its own choice *)

\* Absolute times a consumer may send: by night and by day for the users modelled.
FeedbackTimes == {0, 30000, 80000}

InitFraudDriven ==
    /\ NoSimulation
    /\ amounts = NotUsed
    /\ wrapped = NotUsed
    /\ \E user_id \in LegitUsers, seed \in 0..MaxSeed :
          driven = [state |-> "created", kind |-> "fraud", user_id |-> user_id, seed |-> seed,
                    frame |-> fraudulent_user_stream(user_id, seed, MerchantCount, 0),
                    sent |-> <<>>, yielded |-> <<>>]

\* The stream's frame and yield after one more pull, value being sent.
PulledOnce(d, value) ==
    LET o == CHOOSE o \in Outcomes(d.frame, value) : TRUE
    IN [d EXCEPT !.state = "suspended",
                 !.frame = o.gen,
                 !.yielded = Append(@, [offset |-> o.offset, result |-> o.result])]

\* next(e): the first pull; nothing can be sent to a generator not yet started.
FirstPull ==
    /\ driven.state = "created"
    /\ driven' = PulledOnce(driven, 0)
    /\ UNCHANGED <<Engine, amounts, wrapped>>

\* e.send(value)
SendTime ==
    /\ driven.state = "suspended"
    /\ Len(driven.yielded) <= MaxCalls
    /\ \E value \in FeedbackTimes :
          driven' = [PulledOnce(driven, value) EXCEPT !.sent = Append(@, value)]
    /\ UNCHANGED <<Engine, amounts, wrapped>>

NextFraudDriven == FirstPull \/ SendTime

SpecFraudDriven == InitFraudDriven /\ [][NextFraudDriven]_vars

-----------------------------------------------------------------------------
(* merchant_stream(common_merchants, all_merchants, seed=seed) pulled by a consumer *)

CommonMerchants ==
    {<<43, 51, 52, 46, 33>>, <<1, 2, 3, 4, 5, 6, 7, 8, 9, 10>>, <<100, 3, 3>>,
     <<7, 7, 20, 64, 99, 0>>, <<12, 90, 55, 31, 8, 77, 2, 63, 40, 5, 18>>}

\* merchants = merchant_stream(common_merchants, np.arange(merchant_count),
\* seed=seed): a generator object; none of the body has run.
InitMerchants ==
    /\ NoSimulation
    /\ amounts = NotUsed
    /\ wrapped = NotUsed
    /\ \E common_merchants \in CommonMerchants, seed \in 0..MaxSeed :
          driven = [state |-> "created", kind |-> "merchants", seed |-> seed,
                    common_merchants |-> common_merchants, merchant_count |-> MerchantCount,
                    err |-> "none", yielded |-> <<>>]

\* One pass of the loop in frame m: an id of the chosen pool, or ValueError.
MerchantPull(d, m) ==
    IF MerchantRaises(m)
    THEN [state |-> "finished", kind |-> d.kind, seed |-> d.seed,
          common_merchants |-> d.common_merchants, merchant_count |-> d.merchant_count,
          err |-> "ValueError", yielded |-> d.yielded, frame |-> m]
    ELSE [state |-> "suspended", kind |-> d.kind, seed |-> d.seed,
          common_merchants |-> d.common_merchants, merchant_count |-> d.merchant_count,
          err |-> "none",
          yielded |-> Append(d.yielded, [pool |-> MerchantPool(m), id |-> NextMerchant(m)]),
          frame |-> AfterMerchant(m)]

\* The first next(merchants): the favorites are drawn, then the loop is entered.
FirstMerchant ==
    /\ driven.state = "created"
    /\ driven' = MerchantPull(driven, merchant_stream(driven.common_merchants,
                                                      driven.merchant_count, driven.seed))
    /\ UNCHANGED <<Engine, amounts, wrapped>>

\* A later next(merchants)
LaterMerchant ==
    /\ driven.state = "suspended"
    /\ Len(driven.yielded) <= MaxCalls
    /\ driven' = MerchantPull(driven, driven.frame)
    /\ UNCHANGED <<Engine, amounts, wrapped>>

NextMerchants == FirstMerchant \/ LaterMerchant

SpecMerchants == InitMerchants /\ [][NextMerchants]_vars

-----------------------------------------------------------------------------
(* Properties *)

Streams == 1..event_generators

\* Sum of the first k offsets stream history h holds.
RECURSIVE SumOffsets(_, _)
SumOffsets(h, k) == IF k = 0 THEN 0 ELSE SumOffsets(h, k - 1) + h[k].offset

\* The entries of stream e among those yielded, in output order.
EventsOf(e) == SelectSeq(out, LAMBDA x : x.event = e)

\* The k-th event of stream e as the stream itself defines it:
\* (initial_time + its first k offsets, its k-th result).
OwnEvent(e, k) ==
    [time |-> initial_time + SumOffsets(hist[e], k), result |-> hist[e][k].result]

EmittedAs(x) == [time |-> x.time, result |-> x.result]

\* C1: with all offsets >= 0, the times of the events simulate() yields are
\* non-decreasing: each is <= the next one.
Monotonicity ==
    \A i \in 1..(Len(out) - 1) : out[i].time <= out[i + 1].time

MonotonicityWitness ==
    /\ Len(out) >= 3
    /\ out[1].event # out[2].event
    /\ out[1].time < out[3].time

\* C2: the output is the exact stable merge by time of the streams: it is
\* ordered by time, and the events of each stream appear exactly once, in the
\* stream's order, with the stream's own payload, at initial_time + the sum
\* of the stream's offsets so far.
MergeCorrectness ==
    /\ Monotonicity
    /\ \A e \in Streams : \A k \in 1..Len(EventsOf(e)) :
          EmittedAs(EventsOf(e)[k]) = OwnEvent(e, k)

\* C3: with exactly one stream the k-th output is (initial_time + the sum of
\* the stream's first k offsets, the stream's k-th payload), zero offsets
\* included.
SingleStreamReduction ==
    event_generators = 1 =>
        \A k \in 1..Len(out) : EmittedAs(out[k]) = OwnEvent(1, k)

\* Local time of day of user user_id at absolute time t.
LocalTime(t, user_id) == (t + tz_offset(user_id)) % SECONDS_PER_DAY

\* C4: every event of a legitimate stream after its first has its local time
\* (absolute_time + tz_offset) mod 86400 inside [WAKEUP_TIME, SLEEP_TIME].
AwakeWindow ==
    \A e \in Streams :
        gen[e].kind = "legitimate" =>
            \A k \in 2..Len(EventsOf(e)) :
                /\ WAKEUP_TIME <= LocalTime(EventsOf(e)[k].time, gen[e].user_id)
                /\ LocalTime(EventsOf(e)[k].time, gen[e].user_id) <= SLEEP_TIME

\* The (absolute_time, payload) pairs of a sequence of yielded entries.
Emitted(o) == [i \in 1..Len(o) |-> EmittedAs(o[i])]

\* C5: the simulation setup() builds from a seed yields the same sequence of
\* (absolute_time, payload) whatever the clock read when it was built.
SeededDeterminism ==
    built_by.by = "setup" =>
        \A now \in Clocks :
            Emitted(Run(setup(built_by.user_count, MerchantCount, 21, built_by.seed, now),
                        calls).out) = Emitted(out)

\* C6: every value sent to a stream by next() is the head entry's time: it is
\* initial_time + the sum of all offsets that stream has yielded so far, and
\* it is the time of the event the same next() call yields.
FeedbackIsHeadTime ==
    \A e \in Streams :
        /\ \A k \in 1..Len(sent[e]) :
              /\ k <= Len(hist[e])
              /\ sent[e][k] = initial_time + SumOffsets(hist[e], k)
        /\ Len(EventsOf(e)) <= Len(sent[e])
        /\ \A k \in 1..Len(EventsOf(e)) : EventsOf(e)[k].time = sent[e][k]

FeedbackWitness ==
    /\ event_generators = 2
    /\ initial_time # 0
    /\ Len(out) >= 3
    /\ Len(sent[1]) >= 1
    /\ Len(sent[2]) >= 1
    /\ \E e \in Streams : Len(hist[e]) >= 2 /\ hist[e][2].offset = 0

\* No stream has yielded a zero offset after its first event, so no two
\* entries of one stream ever have the same time.
NoTieWithinAStream ==
    \A e \in Streams : \A k \in 2..Len(hist[e]) : hist[e][k].offset > 0

\* C7: entries of different streams with equal time are ordered by time alone,
\* ties broken by source order: the comparison never fails whatever the
\* payloads, and of two streams whose first events tie the first stream's
\* event is yielded first.
TieBreakBySourceOrder ==
    /\ NoTieWithinAStream => err # "TypeError"
    /\ (/\ event_generators = 2
        /\ Len(out) >= 1
        /\ hist[1][1].offset = hist[2][1].offset) => out[1].event = 1

\* C8 (as stated): before any next() call every stream has been advanced once
\* and the queue holds one entry per stream.
LoadedBeforeFirstNext ==
    calls = 0 =>
        /\ Len(pq) = event_generators
        /\ \A e \in Streams : Len(hist[e]) = 1

\* C8 (amended): nothing is pulled before the first next() call; that call
\* advances every stream once, loads one entry per stream at initial_time +
\* the stream's first offset, and pulls a second time only the head's stream,
\* whose first event it yields.
LoadedByFirstNext ==
    /\ calls = 0 => (pq = <<>> /\ \A e \in Streams : hist[e] = <<>> /\ sent[e] = <<>>)
    /\ (calls = 1 /\ Len(out) = 1) =>
          /\ EmittedAs(out[1]) = OwnEvent(out[1].event, 1)
          /\ Len(pq) = event_generators
          /\ \A e \in Streams :
                /\ Len(hist[e]) = IF e = out[1].event THEN 2 ELSE 1
                /\ Len(sent[e]) = IF e = out[1].event THEN 1 ELSE 0
                /\ \E i \in 1..Len(pq) : pq[i].event = e
                /\ \A i \in 1..Len(pq) :
                      (pq[i].event = e /\ e # out[1].event) =>
                          EmittedAs(pq[i]) = OwnEvent(e, 1)

LoadedByFirstNextWitness ==
    /\ calls = 1
    /\ Len(out) = 1
    /\ event_generators = 2
    /\ initial_time # 0
    /\ out[1].event = 2

\* C9: a stream that raises during a pull is fatal: the call that hits it
\* yields no event and finishes the generator, and from then on no call
\* yields an event or pulls, retries or advances any stream.
StreamFailureIsFatal ==
    [][err' = "StreamError" =>
          /\ out' = out
          /\ state' = "finished"
          /\ err = "StreamError" => (hist' = hist /\ sent' = sent /\ gen' = gen)]_vars

StreamFailureWitness ==
    /\ err = "StreamError"
    /\ Len(out) >= 1
    /\ calls >= Len(out) + 2

\* C10: once a stream has returned a negative offset the engine has stopped
\* with an error and yields no further event.
NegativeOffsetIsFatal ==
    (\E e \in Streams : \E k \in 1..Len(hist[e]) : hist[e][k].offset < 0) =>
        (state = "finished" /\ err # "none")

\* The configuration of transaction_amounts is malformed: the weights do not
\* sum to 1, or there are not as many weights as means.
MalformedAmounts(means, percentages) ==
    \/ Len(percentages) # Len(means)
    \/ Cumulative(percentages, Len(percentages)) # 1000

\* C11: a malformed configuration of transaction_amounts fails with an error
\* when the stream is constructed, before any value is pulled from it, and
\* is never silently normalized (no value is ever yielded).
MalformedFailsAtConstruction ==
    (/\ amounts.state \notin {"unused", "uncalled"}
     /\ MalformedAmounts(amounts.frame.means, amounts.frame.percentages)) =>
        /\ amounts.state = "finished"
        /\ amounts.err = "ValueError"
        /\ amounts.yielded = <<>>

\* C19: every amount transaction_amounts yields is non-negative and has at
\* most two decimal digits (a whole number of cents): it is the floor of a
\* sample c in cents, c >= 100 * the mean of the selected component, which
\* is one of the configured means, and that mean is >= 0.
AmountPrecision ==
    amounts.state \in {"created", "suspended", "finished"} =>
        \A k \in 1..Len(amounts.yielded) :
            /\ amounts.yielded[k] >= 0
            /\ amounts.yielded[k] % 100 = 0
            /\ amounts.yielded[k] <= amounts.sample[k]
            /\ amounts.sample[k] < amounts.yielded[k] + 100
            /\ amounts.choice[k] \in 1..Len(amounts.frame.means)
            /\ amounts.sample[k] >= 100 * (100 * amounts.frame.means[amounts.choice[k]])
            /\ amounts.frame.means[amounts.choice[k]] >= 0

AmountPrecisionWitness ==
    /\ amounts.state = "suspended"
    /\ Len(amounts.yielded) >= 2
    /\ amounts.choice[1] # amounts.choice[2]
    /\ amounts.sample[1] % 100 # 0

\* C12: the engine never terminates or fails on its own: as long as no stream
\* has raised (and all offsets are >= 0), every next() call made so far has
\* returned an event and the generator is not finished, whatever the offsets
\* and payloads are.
NeverFailsOnItsOwn ==
    err # "StreamError" =>
        /\ state # "finished"
        /\ Len(out) = calls

\* The entries of stream e in heap list q.
EntriesOf(q, e) == {q[i] : i \in {j \in 1..Len(q) : q[j].event = e}}

\* Stream e is left alone by the step: not advanced, nothing sent to it.
NotPulled(e) == gen'[e] = gen[e] /\ hist'[e] = hist[e] /\ sent'[e] = sent[e]

\* C13 (as stated): each next() call that returns an event pulls exactly one
\* stream, the source of the event it returns (the queue head), exactly once;
\* every other stream is not advanced and its queue entry is unchanged.
OnePullPerNext ==
    [][(calls' = calls + 1 /\ Len(out') = Len(out) + 1) =>
          LET e == out'[Len(out')].event
          IN /\ Len(hist'[e]) = Len(hist[e]) + 1
             /\ \A f \in Streams \ {e} :
                   NotPulled(f) /\ EntriesOf(pq', f) = EntriesOf(pq, f)]_vars

\* C13 (amended): a next() call on the suspended engine pulls exactly one
\* stream, the source of the queue head, exactly once, and leaves every other
\* stream and its queue entry alone; the first next() call advances every
\* stream once and the head's stream once more; a next() call on the
\* finished engine pulls no stream.
OnePullPerLaterNext ==
    [][calls' = calls + 1 =>
          CASE state = "suspended" ->
                 LET e == pq[1].event
                 IN /\ Len(sent'[e]) = Len(sent[e]) + 1
                    /\ \A f \in Streams \ {e} : NotPulled(f)
                    /\ Len(out') = Len(out) + 1 =>
                          /\ out'[Len(out')] = pq[1]
                          /\ Len(hist'[e]) = Len(hist[e]) + 1
                          /\ \A f \in Streams \ {e} : EntriesOf(pq', f) = EntriesOf(pq, f)
            [] state = "created" ->
                 Len(out') = 1 =>
                     \A f \in Streams :
                         Len(hist'[f]) = IF f = out'[1].event THEN 2 ELSE 1
            [] OTHER -> \A f \in Streams : NotPulled(f)]_vars

OnePullPerLaterNextWitness ==
    /\ event_generators = 2
    /\ Len(out) = 3
    /\ out[2].event # out[3].event
    /\ Len(hist[1]) + Len(hist[2]) = 5

\* C14: makeprng resolves the generator in this order: a generator instance
\* that is supplied is passed through unchanged; else a fresh generator is
\* built from the supplied seed, whatever integer it is (0 included); else a
\* fresh generator is built from a seed derived from the current time. The
\* wrapped function never receives a null generator.
PrngResolution ==
    wrapped.state = "called" =>
        /\ wrapped.received.prng # NoPrng
        /\ wrapped.prng # NoPrng => wrapped.received.prng = wrapped.prng
        /\ (wrapped.prng = NoPrng /\ wrapped.seed # None) =>
              wrapped.received.prng = [seed |-> wrapped.seed, pos |-> 0]
        /\ (wrapped.prng = NoPrng /\ wrapped.seed = None) =>
              /\ wrapped.received.prng.pos = 0
              /\ wrapped.received.prng.seed = wrapped.now % 100

PrngResolutionWitness ==
    /\ wrapped.state = "called"
    /\ wrapped.prng = NoPrng
    /\ wrapped.seed = 0
    /\ wrapped.now % 100 # 0

\* x is a value geom.rvs() can return for a distribution with this mean and loc.
IsGeomGap(x, mean, loc) == \E r \in 0..99 : x = Geom(r, mean, loc)

\* Records of the current episode that fraud frame g has yielded so far.
BurstDone(g) == g.fraud_count - Len(g.burst)

\* C15: the fraudulent stream proceeds in episodes: each draws a delay >= 1
\* and a burst size >= 1 and yields exactly burst-size records, the first
\* offset being the delay plus one geometric gap and the others one geometric
\* gap each; the next episode (a new delay and a new burst size) starts only
\* when the burst is exhausted; every record is labelled "fraud" and carries
\* the stream's user_id.
FraudEpisodes ==
    [][\A e \in Streams :
          (gen[e].kind = "fraud" /\ Len(hist'[e]) > Len(hist[e])) =>
              LET g == gen[e]
                  h == gen'[e]
                  last == hist'[e][Len(hist'[e])]
              IN /\ h.fraud_delay >= 1
                 /\ h.fraud_count >= 1
                 /\ BurstDone(h) \in 1..h.fraud_count
                 /\ IF BurstDone(h) = 1
                    THEN IsGeomGap(last.offset - h.fraud_delay, 10, h.loc)
                    ELSE IsGeomGap(last.offset, 10, h.loc)
                 /\ last.result.val[1] = 0
                 /\ last.result.val[2] = h.user_id
                 /\ Len(hist'[e]) = Len(hist[e]) + 1 =>
                       IF g.burst # <<>>
                       THEN /\ h.fraud_delay = g.fraud_delay
                            /\ h.fraud_count = g.fraud_count
                            /\ BurstDone(h) = BurstDone(g) + 1
                       ELSE /\ BurstDone(h) = 1
                            /\ h.foldnorm = Advance(g.foldnorm, 1)
                            /\ h.poisson = Advance(g.poisson, 1)]_vars

FraudEpisodesWitness ==
    \E e \in Streams :
        /\ gen[e].kind = "fraud"
        /\ Len(hist[e]) >= 4
        /\ gen[e].fraud_count = 2
        /\ gen[e].burst = <<>>
        /\ gen[e].foldnorm.pos >= 2

\* C17: every offset a legitimate or fraudulent user stream yields is >= 0,
\* whatever time is fed back, whatever the delay distributions draw and
\* however often the snooze loop is passed.
UserOffsetsNonNegative ==
    \A e \in Streams :
        gen[e].kind \in StreamKinds =>
            \A k \in 1..Len(hist[e]) : hist[e][k].offset >= 0

\* A legitimate stream has passed its snooze loop (more draws from geom than
\* events) after an event late in its local day, beside a fraudulent stream.
UserOffsetsWitness ==
    /\ \E e \in Streams :
          /\ gen[e].kind = "legitimate"
          /\ Len(hist[e]) >= 3
          /\ gen[e].geom.pos > Len(hist[e]) + 1
          /\ \E k \in 1..Len(sent[e]) : LocalTime(sent[e][k], gen[e].user_id) > SLEEP_TIME
    /\ \E e \in Streams : gen[e].kind = "fraud" /\ Len(hist[e]) >= 1

\* The fields of a record: (label, user_id, amount, merchant_id, entry, foreign).
EntryOf(result) == result.val[5]
ForeignOf(result) == result.val[6] = 1

\* C18: in every record a legitimate user stream yields, foreign is true only
\* if the entry type is "online".
ForeignOnlyOnline ==
    \A e \in Streams :
        gen[e].kind = "legitimate" =>
            \A k \in 1..Len(hist[e]) :
                ForeignOf(hist[e][k].result) => EntryOf(hist[e][k].result) = EntryRank("online")

ForeignOnlyOnlineWitness ==
    /\ \E e \in Streams :
          /\ gen[e].kind = "legitimate"
          /\ \E k \in 1..Len(hist[e]) : ForeignOf(hist[e][k].result)
          /\ \E k \in 1..Len(hist[e]) : EntryOf(hist[e][k].result) # EntryRank("online")
    /\ \E e \in Streams :
          /\ gen[e].kind = "legitimate"
          /\ \E k \in 1..Len(hist[e]) :
                /\ ~ForeignOf(hist[e][k].result)
                /\ EntryOf(hist[e][k].result) = EntryRank("online")

\* Stream e as it was handed to simulate(), before any pull.
BuiltStream(e) ==
    IF built_by.by = "setup"
    THEN setup(built_by.user_count, MerchantCount, 21, built_by.seed, initial_time).gen[e]
    ELSE user_stream(built_by.kinds[e], built_by.users[e], built_by.seeds[e])

\* The first k events of a simulation of stream g alone, from the same initial time.
Alone(g, k) == Emitted(Run(NewSimulation(1, initial_time, <<g>>), k).out)

\* C16: the (absolute_time, payload) events a seeded user stream contributes
\* to the output are the ones it yields when it is simulated alone, whatever
\* other streams are present and however often they are pulled.
StreamIndependence ==
    built_by.by \in {"users", "setup"} =>
        \A e \in Streams :
            Emitted(EventsOf(e)) = Alone(BuiltStream(e), Len(EventsOf(e)))

StreamIndependenceWitness ==
    /\ built_by.by = "users"
    /\ event_generators = 2
    /\ Len(EventsOf(1)) >= 1
    /\ Len(EventsOf(2)) >= 2
    /\ built_by.seeds[1] # built_by.seeds[2]

\* C20: after initialization and after every completed next() call the queue
\* holds exactly one entry per stream, which is the stream's most recently
\* pulled event, not yet emitted: its time is initial_time + the sum of the
\* stream's offsets so far (the head's time + the new offset for the stream
\* just pulled), its payload the newly pulled one, and each stream has been
\* pulled (number of its events emitted + 1) times.
QueueHoldsLatestPull ==
    state = "suspended" =>
        /\ Len(pq) = event_generators
        /\ \A e \in Streams :
              /\ Cardinality({i \in 1..Len(pq) : pq[i].event = e}) = 1
              /\ \A i \in 1..Len(pq) :
                    pq[i].event = e => EmittedAs(pq[i]) = OwnEvent(e, Len(hist[e]))
              /\ Len(hist[e]) = Len(EventsOf(e)) + 1

\* C21: every pull of legitimate_user_stream eventually returns an event:
\* whenever the snooze loop is entered it is left after finitely many passes,
\* under fairness on the values drawn.
PullReturns ==
    (driven.state \in {"start", "loop"}) ~> (driven.state = "yield")

\* The snooze loop has been passed and left: the stream yields after a pull
\* that started asleep.
PullReturnsWitness ==
    /\ driven.state = "yield"
    /\ Asleep(TimeOfDay(driven.ts + tz_offset(driven.user_id)))
    /\ ~driven.snooze

\* What a stream built like the driven one yields when it is pulled once with
\* next() and then sent the values of sequence values, one by one.
RECURSIVE SentAll(_, _)
SentAll(d, values) ==
    IF values = <<>> THEN d ELSE SentAll(PulledOnce(d, Head(values)), Tail(values))
YieldsWhenSent(values) ==
    SentAll(PulledOnce([driven EXCEPT
                           !.frame = fraudulent_user_stream(driven.user_id, driven.seed,
                                                            MerchantCount, 0),
                           !.yielded = <<>>], 0),
            values).yielded

\* C22: the (offset, payload) sequence of a fraudulent stream does not depend
\* on the times it is sent: a stream built with the same seed and arguments
\* and sent any other sequence of times yields the same sequence.
FraudIgnoresFeedback ==
    driven.state = "suspended" =>
        \A values \in [1..Len(driven.sent) -> FeedbackTimes] :
            YieldsWhenSent(values) = driven.yielded

FraudIgnoresFeedbackWitness ==
    /\ driven.state = "suspended"
    /\ Len(driven.sent) >= 3
    /\ driven.sent[1] # driven.sent[2]
    /\ driven.sent[2] # driven.sent[3]
    /\ driven.frame.foldnorm.pos >= 2

\* The ids a list of merchants holds.
Ids(pool) == {pool[j] : j \in 1..Len(pool)}

\* C23: the favorite pool of merchant_stream is chosen once, before the first
\* id is produced; it has int(len(common_merchants) * 0.2) entries, all drawn
\* from the common pool, and never changes afterwards; every id produced
\* belongs to the pool selected for its draw (favorite, common or the full
\* range), hence to common_merchants or all_merchants.
FavoritesFixed ==
    [][driven'.state \in {"suspended", "finished"} =>
          LET favorites == driven'.frame.favorite_merchants
              common == driven'.common_merchants
              size == Len(favorites)
          IN /\ 5 * size <= Len(common)
             /\ Len(common) < 5 * (size + 1)
             /\ Ids(favorites) \subseteq Ids(common)
             /\ driven.state = "suspended" => favorites = driven.frame.favorite_merchants
             /\ \A k \in 1..Len(driven'.yielded) :
                   LET y == driven'.yielded[k]
                   IN /\ y.pool = 1 => y.id \in Ids(favorites)
                      /\ y.pool = 2 => y.id \in Ids(common)
                      /\ y.pool = 3 => y.id \in 0..(driven'.merchant_count - 1)
                      /\ y.id \in Ids(common) \cup 0..(driven'.merchant_count - 1)]_vars

FavoritesFixedWitness ==
    /\ driven.state = "suspended"
    /\ Len(driven.frame.favorite_merchants) = 2
    /\ Len(driven.yielded) >= 3
    /\ \E k \in 1..Len(driven.yielded) : driven.yielded[k].pool = 1
    /\ \E k \in 1..Len(driven.yielded) : driven.yielded[k].pool = 2

\* The streams of kind kind that carry user id uid.
StreamsOf(kind, uid) == {e \in Streams : gen[e].kind = kind /\ gen[e].user_id = uid}

\* The label and the user id of a record.
LabelOf(result) == IF result.val[1] = 1 THEN "legitimate" ELSE "fraud"
UserOf(result) == result.val[2]

\* C24: the simulation setup(user_count, ...) builds has exactly one
\* legitimate stream for each user id in 0..user_count-1, at most one
\* fraudulent stream per user id, each for the id of a legitimate stream;
\* every record yielded or emitted carries a user id in that range and the
\* kind of its stream as its label.
OneStreamPerUser ==
    built_by.by = "setup" =>
        LET UserIds == 0..(built_by.user_count - 1)
        IN /\ \A uid \in UserIds : Cardinality(StreamsOf("legitimate", uid)) = 1
           /\ \A uid \in UserIds : Cardinality(StreamsOf("fraud", uid)) <= 1
           /\ \A e \in Streams :
                 /\ gen[e].kind \in StreamKinds
                 /\ gen[e].user_id \in UserIds
                 /\ \A k \in 1..Len(hist[e]) :
                       /\ UserOf(hist[e][k].result) = gen[e].user_id
                       /\ LabelOf(hist[e][k].result) = gen[e].kind
           /\ \A k \in 1..Len(out) :
                 /\ UserOf(out[k].result) \in UserIds
                 /\ LabelOf(out[k].result) = gen[out[k].event].kind

OneStreamPerUserWitness ==
    /\ built_by.by = "setup"
    /\ built_by.user_count = 2
    /\ \E e \in Streams : gen[e].kind = "fraud" /\ gen[e].user_id = 1
    /\ Len(out) >= 2
    /\ UserOf(out[1].result) # UserOf(out[2].result)

====
